---- MODULE Spec2Model ----
(***************************************************************************)
(* A CANopen local (slave) node: the object dictionary access path of      *)
(* canopen/node/local.py (get_data, set_data, _find_object, the read and   *)
(* write callback lists), the TPDO write callbacks of canopen/pdo/         *)
(* __init__.py, the RPDO back-propagation update_sdo_from_pdo and the      *)
(* periodic transmission of canopen/pdo.py (Message.start / stop).         *)
(*                                                                         *)
(* Byte strings are sequences of numbers 0..255.  An optional value        *)
(* (Python's None or a value) is the empty sequence or a one-element       *)
(* sequence.  An SdoAbortedError is the string of its abort code.          *)
(***************************************************************************)
EXTENDS Integers, Sequences, FiniteSets, TLC

VARIABLES
    data_store,       \* LocalNode.data_store: (index, subindex) -> bytes
    read_callbacks,   \* LocalNode._read_callbacks, in registration order
    write_callbacks,  \* LocalNode._write_callbacks, in registration order
    nmt,              \* NmtSlave: [state, heartbeat_time]
    tpdo,             \* TPDO map 1: [cob_id, enabled, trans_type, period, map, data]
    rpdo,             \* RPDO map 1: [cob_id, enabled, trans_type, map, data]
    thread,           \* TPDO map 1: [transmit_thread, stop_event]
    sent,             \* frames the periodic task handed to the network
    ret,              \* the last API call: its arguments, outcome and call trace
    downloaded,       \* (index, subindex) -> bytes of the last completed download
    ops,              \* number of API calls made so far
    network,          \* LocalNode.network: "net" or "None"
    subscriptions,    \* the node's handlers subscribed at the network: {<<cob_id, handler>>}
    peer_nmt,         \* NMT state of a second local node on the same network
    message,          \* a pdo.py Message of RPDO 1: [enabled, cob_id, trans_type, map, data]
    task,             \* its periodic transmission: [period, transmit_thread, stop_event, stopped, threads]
    reception,        \* a Message of PdoNode.tx after read(): [cob_id, data, timestamp, frames, waiters]
    callers,          \* threads inside LocalNode.set_data: [pc, index, subindex, data, check, k, exc, locks]
    pdo_map           \* PDO.map of the node's aggregator self.pdo: key -> PDO map

netVars == <<network, subscriptions, peer_nmt>>

\* What the operations of the local node leave alone
otherVars == <<message, task, reception, callers, pdo_map>>

\* What the configuration calls of a Message leave alone
concVars == <<task, reception, callers, pdo_map>>

\* What the periodic transmission leaves alone
notTaskVars == <<message, reception, callers, pdo_map>>

\* What the reception of frames leaves alone
notReceptionVars == <<message, task, callers, pdo_map>>

\* What a thread inside set_data leaves alone, but for its callbacks
notCallersVars == <<message, task, reception, pdo_map>>

vars == <<data_store, read_callbacks, write_callbacks, nmt, tpdo, rpdo,
          thread, sent, ret, downloaded, ops, netVars, otherVars>>

---------------------------------------------------------------------------
(* Bounds of the model *)

MaxOps == 3            \* API calls per behaviour
MaxSent == 1           \* frames recorded from the periodic task
MaxReadCallbacks == 2  \* user read callbacks registered
MaxWriteCallbacks == 1 \* user write callbacks registered

---------------------------------------------------------------------------
(* Object dictionary indices named in the sources *)

I1001 == 4097    \* 0x1001 error register
I1017 == 4119    \* 0x1017 producer heartbeat time
I1018 == 4120    \* 0x1018 identity record
I1234 == 4660    \* 0x1234, not in the dictionary
I1400 == 5120    \* 0x1400 RPDO 1 communication record
I1600 == 5632    \* 0x1600 RPDO 1 mapping record
I1800 == 6144    \* 0x1800 TPDO 1 communication record
I1A00 == 6656    \* 0x1A00 TPDO 1 mapping record
I2010 == 8208    \* 0x2010 UNSIGNED32
I2013 == 8211    \* 0x2013 UNSIGNED32
I2030 == 8240    \* 0x2030 UNSIGNED32
I2033 == 8243    \* 0x2033 UNSIGNED32

NoValue == <<>>
Some(v) == <<v>>

\* F applied to the value v, which F's body may use any number of times
Bind(v, F(_)) == F(v)

\* objectdictionary.Variable: the attributes the node reads
ODVar(index, subindex, bits, access, value, default) ==
    [index |-> index, subindex |-> subindex, bits |-> bits,
     readable |-> access \in {"ro", "rw", "const"},
     writable |-> access \in {"wo", "rw"},
     value |-> value, default |-> default]

\* (index << 16) | (subindex << 8) | bit_length, a PDO mapping descriptor
Descriptor(index, subindex, bits) == index * 65536 + subindex * 256 + bits

\* The object dictionary the node is built with (an EDS in the shape of the
\* tests' widget.eds): index -> [kind, subs], a Variable under subindex 0.
ObjectDictionary ==
    (I1001 :> [kind |-> "Variable", subs |->
                (0 :> ODVar(I1001, 0, 8, "ro", NoValue, NoValue))])
 @@ (I1017 :> [kind |-> "Variable", subs |->
                (0 :> ODVar(I1017, 0, 16, "rw", NoValue, Some(0)))])
 @@ (I1018 :> [kind |-> "Record", subs |->
                (0 :> ODVar(I1018, 0, 8, "ro", NoValue, Some(2)))
             @@ (1 :> ODVar(I1018, 1, 32, "ro", Some(513), Some(1)))
             @@ (2 :> ODVar(I1018, 2, 8, "wo", NoValue, NoValue))])
 @@ (I1400 :> [kind |-> "Record", subs |->
                (0 :> ODVar(I1400, 0, 8, "ro", NoValue, Some(2)))
             @@ (1 :> ODVar(I1400, 1, 32, "rw", NoValue, Some(514)))
             @@ (2 :> ODVar(I1400, 2, 8, "rw", NoValue, Some(255)))])
 @@ (I1600 :> [kind |-> "Record", subs |->
                (0 :> ODVar(I1600, 0, 8, "rw", NoValue, Some(2)))
             @@ (1 :> ODVar(I1600, 1, 32, "rw", NoValue,
                            Some(Descriptor(I2013, 0, 32))))
             @@ (2 :> ODVar(I1600, 2, 32, "rw", NoValue,
                            Some(Descriptor(I2010, 0, 32))))])
 @@ (I1800 :> [kind |-> "Record", subs |->
                (0 :> ODVar(I1800, 0, 8, "ro", NoValue, Some(5)))
             @@ (1 :> ODVar(I1800, 1, 32, "rw", NoValue, Some(386)))
             @@ (2 :> ODVar(I1800, 2, 8, "rw", NoValue, Some(1)))
             @@ (5 :> ODVar(I1800, 5, 16, "rw", NoValue, Some(0)))])
 @@ (I1A00 :> [kind |-> "Record", subs |->
                (0 :> ODVar(I1A00, 0, 8, "rw", NoValue, Some(2)))
             @@ (1 :> ODVar(I1A00, 1, 32, "rw", NoValue,
                            Some(Descriptor(I2033, 0, 32))))
             @@ (2 :> ODVar(I1A00, 2, 32, "rw", NoValue,
                            Some(Descriptor(I2030, 0, 32))))])
 @@ (I2010 :> [kind |-> "Variable", subs |->
                (0 :> ODVar(I2010, 0, 32, "rw", NoValue, NoValue))])
 @@ (I2013 :> [kind |-> "Variable", subs |->
                (0 :> ODVar(I2013, 0, 32, "rw", NoValue, Some(7)))])
 @@ (I2030 :> [kind |-> "Variable", subs |->
                (0 :> ODVar(I2030, 0, 32, "rw", NoValue, NoValue))])
 @@ (I2033 :> [kind |-> "Variable", subs |->
                (0 :> ODVar(I2033, 0, 32, "rw", Some(9), Some(3)))])

---------------------------------------------------------------------------
(* Codec: little-endian byte strings of bit_length / 8 bytes *)

Pow256(i) == CASE i = 0 -> 1 [] i = 1 -> 256 [] i = 2 -> 65536 [] OTHER -> 16777216

\* Variable.encode_raw for the unsigned integer types
encode_raw(od, value) ==
    [i \in 1..(od.bits \div 8) |-> (value \div Pow256(i - 1)) % 256]

RECURSIVE decode_raw(_)
\* Variable.decode_raw for the unsigned integer types
decode_raw(data) ==
    IF data = <<>> THEN 0
    ELSE data[1] + 256 * decode_raw(Tail(data))

---------------------------------------------------------------------------
(* The node as one value, threaded through the handlers *)

Node ==
    [data_store |-> data_store, read_callbacks |-> read_callbacks,
     write_callbacks |-> write_callbacks, nmt |-> nmt, tpdo |-> tpdo,
     rpdo |-> rpdo, thread |-> thread, exc |-> "", calls |-> <<>>]

Call(ev, index, subindex, data) ==
    [ev |-> ev, index |-> index, subindex |-> subindex, data |-> data]

Raise(st, exc) == [st EXCEPT !.exc = exc]

---------------------------------------------------------------------------
(* LocalNode: object lookup, read path *)

\* Mutant: a missing subindex of a Record/Array falls back to the first entry
_find_object_nosub(index, subindex) ==
    IF index \notin DOMAIN ObjectDictionary
    THEN [exc |-> "0x06020000", od |-> NoValue]
    ELSE Bind(ObjectDictionary[index], LAMBDA obj :
             IF obj.kind # "Variable"
             THEN IF subindex \notin DOMAIN obj.subs
                  THEN [exc |-> "", od |-> Some(obj.subs[0])]
                  ELSE [exc |-> "", od |-> Some(obj.subs[subindex])]
             ELSE [exc |-> "", od |-> Some(obj.subs[0])])

\* LocalNode._find_object
_find_object(index, subindex) ==
    IF index \notin DOMAIN ObjectDictionary
    THEN [exc |-> "0x06020000", od |-> NoValue]
    ELSE Bind(ObjectDictionary[index], LAMBDA obj :
             IF obj.kind # "Variable"
             THEN IF subindex \notin DOMAIN obj.subs
                  THEN [exc |-> "0x06090011", od |-> NoValue]
                  ELSE [exc |-> "", od |-> Some(obj.subs[subindex])]
             ELSE [exc |-> "", od |-> Some(obj.subs[0])])

\* The user read callbacks that can be registered (the tests'
\* _some_read_callback answers one index and returns None otherwise).
UserReadCallbacks == {"read_2010", "read_2010_1018"}

ReadCallbackResult(callback, index, subindex) ==
    CASE callback = "read_2010" /\ index = I2010 -> Some(513)
      [] callback = "read_2010_1018" /\ index \in {I2010, I1018} -> Some(4)
      [] OTHER -> NoValue

\* A user read callback that raises when it is asked for 0x2010 and returns
\* None for every other object
ReadCallbackRaises(callback, index, subindex) ==
    callback = "read_raises" /\ index = I2010

RECURSIVE RunReadCallbacks(_, _, _, _)
\* get_data's loop over self._read_callbacks: [result, calls, exc]; an
\* exception of a callback leaves the loop
RunReadCallbacks(callbacks, index, subindex, calls) ==
    IF callbacks = <<>> THEN [result |-> NoValue, calls |-> calls, exc |-> ""]
    ELSE IF ReadCallbackRaises(Head(callbacks), index, subindex)
    THEN [result |-> NoValue,
          calls |-> Append(calls, Call(Head(callbacks), index, subindex, <<>>)),
          exc |-> "CallbackError"]
    ELSE IF ReadCallbackResult(Head(callbacks), index, subindex) # NoValue
    THEN [result |-> ReadCallbackResult(Head(callbacks), index, subindex),
          calls |-> Append(calls, Call(Head(callbacks), index, subindex, <<>>)),
          exc |-> ""]
    ELSE RunReadCallbacks(Tail(callbacks), index, subindex,
             Append(calls, Call(Head(callbacks), index, subindex, <<>>)))

Returned(result, calls) == [exc |-> "", result |-> result, calls |-> calls]
Aborted(exc) == [exc |-> exc, result |-> <<>>, calls |-> <<>>]

\* Mutant: stored data is tried before the read callbacks
get_data_store_first(st, index, subindex, check_readable) ==
    Bind(_find_object(index, subindex), LAMBDA found :
    IF found.exc # "" THEN Aborted(found.exc)
    ELSE IF check_readable /\ ~found.od[1].readable THEN Aborted("0x06010001")
    ELSE IF <<index, subindex>> \in DOMAIN st.data_store
    THEN Returned(st.data_store[<<index, subindex>>], <<>>)
    ELSE Bind(RunReadCallbacks(st.read_callbacks, index, subindex, <<>>),
         LAMBDA cb :
         IF cb.result # NoValue
         THEN Returned(encode_raw(found.od[1], cb.result[1]), cb.calls)
         ELSE IF found.od[1].value # NoValue
         THEN Returned(encode_raw(found.od[1], found.od[1].value[1]), cb.calls)
         ELSE IF found.od[1].default # NoValue
         THEN Returned(encode_raw(found.od[1], found.od[1].default[1]), cb.calls)
         ELSE Returned(encode_raw(found.od[1], 0), cb.calls)))

\* Mutant: the default is preferred to stored data
get_data_default_first(st, index, subindex, check_readable) ==
    Bind(_find_object(index, subindex), LAMBDA found :
    IF found.exc # "" THEN Aborted(found.exc)
    ELSE IF check_readable /\ ~found.od[1].readable THEN Aborted("0x06010001")
    ELSE Bind(RunReadCallbacks(st.read_callbacks, index, subindex, <<>>),
         LAMBDA cb :
         IF cb.result # NoValue
         THEN Returned(encode_raw(found.od[1], cb.result[1]), cb.calls)
         ELSE IF found.od[1].default # NoValue
         THEN Returned(encode_raw(found.od[1], found.od[1].default[1]), cb.calls)
         ELSE IF <<index, subindex>> \in DOMAIN st.data_store
         THEN Returned(st.data_store[<<index, subindex>>], cb.calls)
         ELSE Returned(encode_raw(found.od[1], 0), cb.calls)))

\* LocalNode.get_data: [exc, result, calls]
get_data(st, index, subindex, check_readable) ==
    Bind(_find_object(index, subindex), LAMBDA found :
    IF found.exc # "" THEN Aborted(found.exc)
    ELSE IF check_readable /\ ~found.od[1].readable THEN Aborted("0x06010001")
    ELSE Bind(RunReadCallbacks(st.read_callbacks, index, subindex, <<>>),
         LAMBDA cb :
         IF cb.exc # ""
         THEN [exc |-> cb.exc, result |-> <<>>, calls |-> cb.calls]
         ELSE IF cb.result # NoValue
         THEN Returned(encode_raw(found.od[1], cb.result[1]), cb.calls)
         ELSE IF <<index, subindex>> \in DOMAIN st.data_store
         THEN Returned(st.data_store[<<index, subindex>>], cb.calls)
         ELSE IF found.od[1].value # NoValue
         THEN Returned(encode_raw(found.od[1], found.od[1].value[1]), cb.calls)
         ELSE IF found.od[1].default # NoValue
         THEN Returned(encode_raw(found.od[1], found.od[1].default[1]), cb.calls)
         ELSE Returned(encode_raw(found.od[1], 0), cb.calls)))

\* SdoServer.upload behind node.sdo[index][subindex].data
SdoData(st, index, subindex) == get_data(st, index, subindex, FALSE).result

\* node.sdo[index][subindex].raw, read
SdoRaw(st, index, subindex) == decode_raw(SdoData(st, index, subindex))

---------------------------------------------------------------------------
(* PDO messages: mapped variables, configuration, periodic transmission *)

Min(a, b) == IF a < b THEN a ELSE b

Zeros(n) == [i \in 1..n |-> 0]

\* bytearray slice assignment buf[lo:lo+len(data)] = data
Splice(buf, lo, data) ==
    SubSeq(buf, 1, Min(lo, Len(buf))) \o data
        \o SubSeq(buf, Min(lo + Len(data), Len(buf)) + 1, Len(buf))

\* pdo.Variable.set_data on the message that holds the variable
Variable_set_data(msg, var, data) ==
    [msg EXCEPT !.data = Splice(@, var.offset \div 8, data)]

\* The bytes of a mapped variable in the message's buffer
VariableSlice(msg, var) ==
    SubSeq(msg.data, var.offset \div 8 + 1,
           Min(var.offset \div 8 + var.bits \div 8, Len(msg.data)))

\* Message._get_variable: the OD variable a mapping descriptor names
_get_variable(index, subindex) ==
    IF index \notin DOMAIN ObjectDictionary THEN NoValue
    ELSE Bind(ObjectDictionary[index], LAMBDA obj :
             IF obj.kind # "Variable"
             THEN IF subindex \in DOMAIN obj.subs
                  THEN Some(obj.subs[subindex]) ELSE NoValue
             ELSE Some(obj.subs[0]))

RECURSIVE _get_total_size(_)
\* Message._get_total_size
_get_total_size(map) ==
    IF map = <<>> THEN 0 ELSE Head(map).bits + _get_total_size(Tail(map))

\* One descriptor of the mapping record, decoded: value >> 16,
\* (value >> 8) & 0xFF, value & 0xFF
MappingEntry(st, map_index, k) ==
    Bind(SdoRaw(st, map_index, k), LAMBDA value :
        [index |-> value \div 65536,
         subindex |-> (value \div 256) % 256,
         bits |-> value % 256])

\* What adding the variable of a descriptor raises: the descriptor names no
\* OD variable, or its size is not the variable's
MappingError(entry) ==
    Bind(_get_variable(entry.index, entry.subindex), LAMBDA od :
        IF od = NoValue THEN "KeyError"
        ELSE IF entry.bits # od[1].bits THEN "AssertionError"
        ELSE "")

\* The variables of the descriptors before the first one that raises, each
\* at the offset that is the sum of the sizes before it
MappedVariables(entries, bad) ==
    [k \in 1..(IF bad = {} THEN Len(entries)
               ELSE (CHOOSE b \in bad : \A j \in bad : b <= j) - 1) |->
        [index |-> entries[k].index, subindex |-> entries[k].subindex,
         offset |-> _get_total_size(SubSeq(entries, 1, k - 1)),
         bits |-> entries[k].bits]]

\* The mapping loop over the descriptors at subindices 1..count of the
\* mapping record, which ends at the first descriptor that raises: [map, exc]
MappingEntries(st, map_index, count) ==
    Bind([k \in 1..count |-> MappingEntry(st, map_index, k)], LAMBDA entries :
    Bind({k \in 1..count : MappingError(entries[k]) # ""}, LAMBDA bad :
        [map |-> MappedVariables(entries, bad),
         exc |-> IF bad = {} THEN ""
                 ELSE MappingError(
                     entries[CHOOSE b \in bad : \A j \in bad : b <= j])]))

\* Map.read_mapping: the mapping is rebuilt from the mapping record and the
\* buffer reallocated to ceil(total bits / 8) zero bytes: [msg, exc]
read_mapping(st, msg) ==
    Bind(MappingEntries(st, msg.map_index, SdoRaw(st, msg.map_index, 0)),
         LAMBDA m :
         [msg |-> [msg EXCEPT !.map = m.map,
                              !.data = IF m.exc = ""
                                       THEN Zeros((_get_total_size(m.map) + 7) \div 8)
                                       ELSE @],
          exc |-> m.exc])

\* The communication record's COB-ID field, read from its four bytes
CobId(data) == (data[1] + 256 * data[2]) % 2048
CobEnabled(data) == data[4] < 128

RECURSIVE SeedVariables(_, _, _)
\* for var in pdo_map: var.set_data(node.sdo[var.od.index][var.od.subindex].data)
SeedVariables(st, msg, map) ==
    IF map = <<>> THEN msg
    ELSE SeedVariables(st,
             Variable_set_data(msg, Head(map),
                 SdoData(st, Head(map).index, Head(map).subindex)),
             Tail(map))

\* Map.update: the buffer is refreshed from the node's current values
update(st, msg) == SeedVariables(st, msg, msg.map)

Spawned == [transmit_thread |-> "alive", stop_event |-> FALSE]

\* Message.start on TPDO 1
start(st, period) ==
    Bind(IF period # NoValue THEN period[1] ELSE st.tpdo.period, LAMBDA p :
        IF p = 0 THEN [st EXCEPT !.tpdo.period = p, !.exc = "ValueError"]
        ELSE IF st.thread.transmit_thread # "alive"
        THEN [st EXCEPT !.tpdo.period = p, !.thread = Spawned]
        ELSE [st EXCEPT !.tpdo.period = p])

\* Message.stop on TPDO 1; the task sleeps at most one period, which is
\* shorter than the 2 s the join waits, so it has ended when stop returns
stop(st) ==
    [st EXCEPT !.thread = [transmit_thread |-> "None", stop_event |-> TRUE]]

\* Map.read_config: the communication record is re-read: COB-ID and enabled
\* flag from subindex 1, transmission type from subindex 2, and the event
\* timer of subindex 5 as the period
read_config(st) ==
    [st EXCEPT !.tpdo.cob_id = CobId(SdoData(st, st.tpdo.com_index, 1)),
               !.tpdo.enabled = CobEnabled(SdoData(st, st.tpdo.com_index, 1)),
               !.tpdo.trans_type = SdoRaw(st, st.tpdo.com_index, 2),
               !.tpdo.period = SdoRaw(st, st.tpdo.com_index, 5)]

\* Map.read_config of an RPDO, whose communication record has no event timer
read_config_rpdo(st) ==
    [st EXCEPT !.rpdo.cob_id = CobId(SdoData(st, st.rpdo.com_index, 1)),
               !.rpdo.enabled = CobEnabled(SdoData(st, st.rpdo.com_index, 1)),
               !.rpdo.trans_type = SdoRaw(st, st.rpdo.com_index, 2)]

\* TPDO.stop
tpdo_stop(st) == stop(st)

\* TPDO.start_all
start_all(st) ==
    IF st.tpdo.trans_type >= 254 THEN start(st, NoValue) ELSE st

---------------------------------------------------------------------------
(* Write callbacks *)

\* NmtSlave.on_write: a write to 0x1017 sets the heartbeat time
nmt_on_write(st, index, subindex, data) ==
    IF index = I1017
    THEN [st EXCEPT !.nmt.heartbeat_time = decode_raw(data)]
    ELSE st

\* TPDO.on_property_write
on_property_write(st, index, subindex, data) ==
    IF index = st.tpdo.com_index
    THEN Bind(read_config(st), LAMBDA s1 :
             IF s1.nmt.state = "OPERATIONAL" /\ s1.tpdo.trans_type >= 254
             THEN start(s1, NoValue)
             ELSE s1)
    ELSE st

\* Mutant: the mapping is not re-read, only the buffer is refreshed
on_mapping_write_no_read(st, index, subindex, data) ==
    IF index = st.tpdo.map_index
    THEN [st EXCEPT !.tpdo = update(st, SeedVariables(st, @, @.map))]
    ELSE st

\* TPDO.on_mapping_write
on_mapping_write(st, index, subindex, data) ==
    IF index = st.tpdo.map_index
    THEN Bind(read_mapping(st, st.tpdo), LAMBDA r :
             IF r.exc # "" THEN [st EXCEPT !.tpdo = r.msg, !.exc = r.exc]
             ELSE [st EXCEPT !.tpdo =
                      update(st, SeedVariables(st, r.msg, r.msg.map))])
    ELSE st

RECURSIVE DataWrite(_, _, _, _)
\* on_data_write's loop over the mapped variables
DataWrite(msg, map, index, data) ==
    IF map = <<>> THEN msg
    ELSE DataWrite(IF index = Head(map).index
                   THEN Variable_set_data(msg, Head(map), data)
                   ELSE msg,
                   Tail(map), index, data)

\* TPDO.on_data_write
on_data_write(st, index, subindex, data) ==
    [st EXCEPT !.tpdo = DataWrite(@, @.map, index, data)]

\* Write callbacks of which none raises
InvokeWriteCallback_no_raise(callback, st, index, subindex, data) ==
    CASE callback = "nmt.on_write" -> nmt_on_write(st, index, subindex, data)
      [] callback = "tpdo.on_property_write" ->
             on_property_write(st, index, subindex, data)
      [] callback = "tpdo.on_mapping_write" ->
             [on_mapping_write(st, index, subindex, data) EXCEPT !.exc = ""]
      [] callback = "tpdo.on_data_write" ->
             on_data_write(st, index, subindex, data)
      [] OTHER -> st

\* One write callback of the list, by name; a user callback only records
\* its arguments (the tests' _some_write_callback), or raises
InvokeWriteCallback(callback, st, index, subindex, data) ==
    CASE callback = "nmt.on_write" -> nmt_on_write(st, index, subindex, data)
      [] callback = "write_raises" -> Raise(st, "CallbackError")
      [] callback = "tpdo.on_property_write" ->
             on_property_write(st, index, subindex, data)
      [] callback = "tpdo.on_mapping_write" ->
             on_mapping_write(st, index, subindex, data)
      [] callback = "tpdo.on_data_write" ->
             on_data_write(st, index, subindex, data)
      [] OTHER -> st

RECURSIVE RunWriteCallbacks(_, _, _, _, _)
\* set_data's loop over self._write_callbacks; a callback that raises ends it
RunWriteCallbacks(callbacks, st, index, subindex, data) ==
    IF callbacks = <<>> \/ st.exc # "" THEN st
    ELSE RunWriteCallbacks(Tail(callbacks),
             InvokeWriteCallback(Head(callbacks),
                 [st EXCEPT !.calls =
                      Append(@, Call(Head(callbacks), index, subindex, data))],
                 index, subindex, data),
             index, subindex, data)

\* self.data_store[index][subindex] = bytes(data)
Store(store, index, subindex, data) ==
    [k \in DOMAIN store \cup {<<index, subindex>>} |->
        IF k = <<index, subindex>> THEN data ELSE store[k]]

Stored(st, index, subindex, data) ==
    [st EXCEPT !.data_store = Store(@, index, subindex, data),
               !.calls = Append(@, Call("store", index, subindex, data))]

\* Mutant: the callbacks run before the data is stored
set_data_callbacks_first(st, index, subindex, data, check_writable) ==
    Bind(_find_object(index, subindex), LAMBDA found :
    IF found.exc # "" THEN Raise(st, found.exc)
    ELSE IF check_writable /\ ~found.od[1].writable
    THEN Raise(st, "0x06010002")
    ELSE Bind(RunWriteCallbacks(st.write_callbacks, st, index, subindex, data),
         LAMBDA s1 :
         IF s1.exc # "" THEN s1 ELSE Stored(s1, index, subindex, data)))

\* Mutant: the access check is made after the data is stored
set_data_late_check(st, index, subindex, data, check_writable) ==
    Bind(_find_object(index, subindex), LAMBDA found :
    IF found.exc # "" THEN Raise(st, found.exc)
    ELSE IF check_writable /\ ~found.od[1].writable
    THEN Raise(Stored(st, index, subindex, data), "0x06010002")
    ELSE RunWriteCallbacks(st.write_callbacks,
             Stored(st, index, subindex, data), index, subindex, data))

\* LocalNode.set_data: the node afterwards, with the exception raised (if
\* any) in exc and the store and the callbacks invoked appended to calls
set_data(st, index, subindex, data, check_writable) ==
    Bind(_find_object(index, subindex), LAMBDA found :
    IF found.exc # "" THEN Raise(st, found.exc)
    ELSE IF check_writable /\ ~found.od[1].writable
    THEN Raise(st, "0x06010002")
    ELSE RunWriteCallbacks(st.write_callbacks,
             Stored(st, index, subindex, data), index, subindex, data))

\* node.sdo[index][subindex].raw = value: encoded with the OD variable's
\* type and downloaded through set_data
SdoSetRaw(st, index, subindex, value) ==
    Bind(_get_variable(index, subindex), LAMBDA od :
        IF od = NoValue THEN Raise(st, "KeyError")
        ELSE set_data(st, index, subindex, encode_raw(od[1], value), FALSE))

\* Mutant: only the first mapped variable is written back
update_sdo_from_pdo_first_only(st, msg, map) ==
    IF map = <<>> \/ st.exc # "" THEN st
    ELSE SdoSetRaw(st, Head(map).index, Head(map).subindex,
                   decode_raw(VariableSlice(msg, Head(map))))

RECURSIVE update_sdo_from_pdo(_, _, _)
\* update_sdo_from_pdo: each mapped variable's value is written to the node
update_sdo_from_pdo(st, msg, map) ==
    IF map = <<>> \/ st.exc # "" THEN st
    ELSE update_sdo_from_pdo(
             IF Head(map).subindex = 0
             THEN SdoSetRaw(st, Head(map).index, 0,
                            decode_raw(VariableSlice(msg, Head(map))))
             ELSE SdoSetRaw(st, Head(map).index, Head(map).subindex,
                            decode_raw(VariableSlice(msg, Head(map)))),
             msg, Tail(map))

---------------------------------------------------------------------------
(* Construction *)

\* Message.__init__ for the maps of Maps(com_offset, map_offset, ...)
Message(com_index, map_index) ==
    [com_index |-> com_index, map_index |-> map_index, cob_id |-> 0,
     enabled |-> FALSE, trans_type |-> 0, period |-> 0, map |-> <<>>,
     data |-> <<>>]

EmptyStore == [k \in {} |-> <<>>]

OwnWriteCallbacks ==
    <<"nmt.on_write", "tpdo.on_property_write", "tpdo.on_mapping_write",
      "tpdo.on_data_write">>

\* LocalNode.__init__ up to the registration of the node's own callbacks
Constructed ==
    [data_store |-> EmptyStore, read_callbacks |-> <<>>,
     write_callbacks |-> OwnWriteCallbacks,
     nmt |-> [state |-> "PRE-OPERATIONAL", heartbeat_time |-> 0],
     tpdo |-> Message(I1800, I1A00), rpdo |-> Message(I1400, I1600),
     thread |-> [transmit_thread |-> "None", stop_event |-> FALSE],
     exc |-> "", calls |-> <<>>]

\* LocalNode.__init__, self.pdo.read(): configuration and mapping of each map
PdoRead(st) ==
    Bind(read_config(read_config_rpdo(st)), LAMBDA s1 :
        [s1 EXCEPT !.rpdo = read_mapping(s1, @).msg,
                   !.tpdo = read_mapping(s1, @).msg])

\* LocalNode.__init__, the TPDO buffers seeded from the dictionary's values
InitNode ==
    Bind(PdoRead(Constructed), LAMBDA s1 :
        [s1 EXCEPT !.tpdo = SeedVariables(s1, @, @.map)])

\* pdo.py Message.__init__: nothing read yet
Message__init__ ==
    [enabled |-> FALSE, cob_id |-> NoValue, trans_type |-> NoValue,
     map |-> NoValue, data |-> <<>>]

\* Message.__init__, the part the periodic transmission uses: no period, no
\* thread, stop_event clear. transmit_thread is 0 for None, else the position
\* of the Thread object in threads, every thread started so far; stopped
\* records that stop() was the last of the start()/stop() calls
Task__init__ ==
    [period |-> NoValue, transmit_thread |-> 0, stop_event |-> FALSE,
     stopped |-> FALSE, threads |-> <<>>]

MaxWaiters == 2        \* threads that call wait_for_reception
MaxFrames == 2         \* frames delivered to PdoNode.on_message

\* COB-ID of the first transmit PDO, as read() takes it from the dictionary
TxCobId == ObjectDictionary[I1800].subs[1].default[1]

\* A thread that has not called wait_for_reception yet; delivered records
\* that a frame of the message arrived while the call was waiting
NoWaiter == [pc |-> "idle", delivered |-> FALSE, result |-> NoValue]

\* Message.__init__ and read(), the part the reception uses: no timestamp,
\* nobody waiting on receive_condition
Reception__init__ ==
    [cob_id |-> TxCobId, data |-> <<>>, timestamp |-> NoValue, frames |-> 0,
     waiters |-> [w \in 1..MaxWaiters |-> NoWaiter]]

\* rpdo.map and tpdo.map: the PDO maps of the communication records the
\* dictionary has, by number
RpdoMaps == (1 :> "rpdo[1]")
TpdoMaps == (1 :> "tpdo[1]")

\* PDO.__init__: the receive maps are put under 0x1A00 + (key - 1), then the
\* transmit maps under 0x1600 + (key - 1)
PDO__init__(rx, tx) ==
    [k \in {I1A00 + (key - 1) : key \in DOMAIN rx}
            \cup {I1600 + (key - 1) : key \in DOMAIN tx} |->
        IF k \in {I1600 + (key - 1) : key \in DOMAIN tx}
        THEN tx[k - I1600 + 1]
        ELSE rx[k - I1A00 + 1]]

MaxCallers == 2        \* threads that call set_data

\* A thread that has not called set_data yet. locks is the set of locks the
\* thread holds: LocalNode creates no lock and no statement of local.py
\* acquires one, so it stays empty
NoCaller ==
    [pc |-> "idle", index |-> 0, subindex |-> 0, data |-> <<>>,
     check |-> FALSE, k |-> 0, exc |-> "", locks |-> {}]

\* The ids of the two local nodes of the network (the tests' create_node
\* calls)
NodeId == 2
PeerId == 3

\* LocalNode.associate_network: the handlers subscribed at the network, the
\* SDO server's on 0x600 + id, the NMT slave's on 0 and every enabled PDO
\* map's on its COB-ID
Subscribed(st) ==
    {<<1536 + NodeId, "sdo.on_request">>, <<0, "nmt.on_command">>}
        \cup (IF st.rpdo.enabled
              THEN {<<st.rpdo.cob_id, "rpdo[1].on_message">>} ELSE {})
        \cup (IF st.tpdo.enabled
              THEN {<<st.tpdo.cob_id, "tpdo[1].on_message">>} ELSE {})

\* LocalNode.remove_network: the subscriptions it removes
Unsubscribed ==
    {<<1536 + NodeId, "sdo.on_request">>, <<0, "nmt.on_command">>}

NoCall == [op |-> "", index |-> 0, subindex |-> 0, data |-> <<>>,
           check |-> FALSE, exc |-> "", result |-> <<>>, calls |-> <<>>]

Init ==
    /\ \E st \in {InitNode} :
          /\ data_store = st.data_store
          /\ read_callbacks = st.read_callbacks
          /\ write_callbacks = st.write_callbacks
          /\ nmt = st.nmt
          /\ tpdo = st.tpdo
          /\ rpdo = st.rpdo
          /\ thread = st.thread
    /\ sent = <<>>
    /\ ret = NoCall
    /\ downloaded = EmptyStore
    /\ ops = 0
    /\ network = "net"
    /\ subscriptions = Subscribed(InitNode)
    /\ peer_nmt = "PRE-OPERATIONAL"
    /\ message = Message__init__
    /\ task = Task__init__
    /\ reception = Reception__init__
    /\ callers = [t \in 1..MaxCallers |-> NoCaller]
    /\ pdo_map = PDO__init__(RpdoMaps, TpdoMaps)

\* The NMT state a command specifier asks for: 1 start, 2 stop, 128 enter
\* pre-operational
NmtStateOf(cs) ==
    CASE cs = 1 -> "OPERATIONAL" [] cs = 2 -> "STOPPED"
      [] OTHER -> "PRE-OPERATIONAL"

\* NmtSlave.on_command: the state follows the command; the TPDOs are started
\* on entering OPERATIONAL and stopped on leaving it
on_command(st, cs) ==
    IF NmtStateOf(cs) = "OPERATIONAL"
    THEN start_all([st EXCEPT !.nmt.state = "OPERATIONAL"])
    ELSE tpdo_stop([st EXCEPT !.nmt.state = NmtStateOf(cs)])

---------------------------------------------------------------------------
(* Inputs *)

Bytes32(value) == encode_raw([bits |-> 32], value)

\* set_data calls: <<index, subindex, data, check_writable>>
DownloadInputs ==
    { <<I2010, 0, Bytes32(103), FALSE>>,
      <<I2033, 0, Bytes32(4660), FALSE>>,
      <<I2033, 0, Bytes32(4660), TRUE>>,
      <<I2030, 0, Bytes32(43981), FALSE>>,
      <<I1800, 2, <<255>>, FALSE>>,
      <<I1800, 2, <<1>>, FALSE>>,
      <<I1800, 5, <<0, 0>>, FALSE>>,
      <<I1800, 5, <<100, 0>>, FALSE>>,
      <<I1A00, 0, <<1>>, FALSE>>,
      <<I1A00, 1, Bytes32(Descriptor(I2033, 0, 32)), FALSE>>,
      <<I1A00, 1, Bytes32(Descriptor(I2030, 0, 32)), FALSE>>,
      <<I1A00, 2, Bytes32(Descriptor(I2033, 0, 32)), FALSE>>,
      <<I1017, 0, <<232, 3>>, FALSE>>,
      <<I1234, 0, <<1>>, FALSE>>,
      <<I1018, 100, <<1>>, FALSE>>,
      <<I1018, 1, Bytes32(5), TRUE>>,
      <<I1018, 1, Bytes32(5), FALSE>>,
      <<I1018, 2, <<7>>, TRUE>> }

\* get_data calls: <<index, subindex, check_readable>>
UploadInputs ==
    { <<I1001, 0, FALSE>>, <<I1018, 0, FALSE>>, <<I1018, 1, FALSE>>,
      <<I1018, 2, FALSE>>, <<I1018, 2, TRUE>>, <<I1018, 100, FALSE>>,
      <<I1234, 0, FALSE>>, <<I2010, 0, FALSE>>, <<I2010, 0, TRUE>>,
      <<I2013, 0, FALSE>>, <<I2030, 0, FALSE>>, <<I2033, 0, FALSE>>,
      <<I1800, 5, FALSE>> }

\* Payloads of frames received on the RPDO's COB-ID
RxPayloads == { <<103, 0, 0, 0, 137, 0, 0, 0>>, <<1, 2, 0, 0, 3, 4, 0, 0>> }

\* NMT command specifiers: start, stop, enter pre-operational
NmtCommands == {1, 2, 128}

\* Periods given to Message.start, in milliseconds
StartPeriods == {NoValue, Some(100), Some(0)}

---------------------------------------------------------------------------
(* Actions *)

Commit(st) ==
    /\ data_store' = st.data_store
    /\ read_callbacks' = st.read_callbacks
    /\ write_callbacks' = st.write_callbacks
    /\ nmt' = st.nmt
    /\ tpdo' = st.tpdo
    /\ rpdo' = st.rpdo
    /\ thread' = st.thread

Remove(store, keys) == [k \in DOMAIN store \ keys |-> store[k]]

StoredKeys(calls) ==
    { <<calls[i].index, calls[i].subindex>> :
        i \in {j \in 1..Len(calls) : calls[j].ev = "store"} }

\* An SDO download or a local write: node.set_data(index, subindex, data)
Download ==
    /\ ops < MaxOps
    /\ \E in \in DownloadInputs :
          \E st \in {set_data(Node, in[1], in[2], in[3], in[4])} :
              /\ Commit(st)
              /\ ret' = [op |-> "set_data", index |-> in[1], subindex |-> in[2],
                         data |-> in[3], check |-> in[4], exc |-> st.exc,
                         result |-> <<>>, calls |-> st.calls]
              /\ downloaded' =
                    IF StoredKeys(st.calls) = {} THEN downloaded
                    ELSE IF st.exc = ""
                    THEN Store(downloaded, in[1], in[2], in[3])
                    ELSE Remove(downloaded, StoredKeys(st.calls))
    /\ ops' = ops + 1
    /\ UNCHANGED <<sent, netVars, otherVars>>

\* An SDO upload or a local read: node.get_data(index, subindex)
Upload ==
    /\ ops < MaxOps
    /\ \E in \in UploadInputs :
          \E r \in {get_data(Node, in[1], in[2], in[3])} :
              ret' = [op |-> "get_data", index |-> in[1], subindex |-> in[2],
                      data |-> <<>>, check |-> in[3], exc |-> r.exc,
                      result |-> r.result, calls |-> r.calls]
    /\ ops' = ops + 1
    /\ UNCHANGED <<data_store, read_callbacks, write_callbacks, nmt, tpdo,
                   rpdo, thread, sent, downloaded, netVars, otherVars>>

\* LocalNode.add_read_callback
add_read_callback ==
    /\ ops < MaxOps
    /\ Len(read_callbacks) < MaxReadCallbacks
    /\ \E callback \in UserReadCallbacks :
          read_callbacks' = Append(read_callbacks, callback)
    /\ ret' = [NoCall EXCEPT !.op = "add_read_callback"]
    /\ ops' = ops + 1
    /\ UNCHANGED <<data_store, write_callbacks, nmt, tpdo, rpdo, thread, sent,
                   downloaded, netVars, otherVars>>

\* LocalNode.add_write_callback
add_write_callback ==
    /\ ops < MaxOps
    /\ Len(write_callbacks) < Len(OwnWriteCallbacks) + MaxWriteCallbacks
    /\ write_callbacks' = Append(write_callbacks, "user_write")
    /\ ret' = [NoCall EXCEPT !.op = "add_write_callback"]
    /\ ops' = ops + 1
    /\ UNCHANGED <<data_store, read_callbacks, nmt, tpdo, rpdo, thread, sent,
                   downloaded, netVars, otherVars>>

\* A frame arrives on the RPDO's COB-ID: the map keeps the payload and its
\* callback update_sdo_from_pdo writes the mapped variables to the node
RxFrame ==
    /\ ops < MaxOps
    /\ <<rpdo.cob_id, "rpdo[1].on_message">> \in subscriptions
    /\ \E payload \in RxPayloads :
          \E st \in {update_sdo_from_pdo([Node EXCEPT !.rpdo.data = payload],
                                         [rpdo EXCEPT !.data = payload],
                                         rpdo.map)} :
              /\ Commit(st)
              /\ ret' = [NoCall EXCEPT !.op = "on_message", !.data = payload,
                                       !.exc = st.exc, !.calls = st.calls]
              /\ downloaded' = Remove(downloaded, StoredKeys(st.calls))
    /\ ops' = ops + 1
    /\ UNCHANGED <<sent, netVars, otherVars>>

\* An NMT command addressed to the node arrives on COB-ID 0
NmtCommand ==
    /\ ops < MaxOps
    /\ <<0, "nmt.on_command">> \in subscriptions
    /\ \E cs \in NmtCommands :
          \E st \in {on_command(Node, cs)} :
              /\ Commit(st)
              /\ ret' = [NoCall EXCEPT !.op = "on_command", !.index = cs,
                                       !.exc = st.exc]
    /\ ops' = ops + 1
    /\ UNCHANGED <<sent, downloaded, netVars, otherVars>>

\* node.tpdo[1].start(period)
MessageStart ==
    /\ ops < MaxOps
    /\ \E period \in StartPeriods :
          \E st \in {start(Node, period)} :
              /\ Commit(st)
              /\ ret' = [NoCall EXCEPT !.op = "start", !.data = period,
                                       !.exc = st.exc]
    /\ ops' = ops + 1
    /\ UNCHANGED <<sent, downloaded, netVars, otherVars>>

\* node.tpdo[1].stop()
MessageStop ==
    /\ ops < MaxOps
    /\ Commit(stop(Node))
    /\ ret' = [NoCall EXCEPT !.op = "stop"]
    /\ ops' = ops + 1
    /\ UNCHANGED <<sent, downloaded, netVars, otherVars>>

\* Message._periodic_transmit, one cycle of the running task: transmit()
\* hands the frame to the network; without a network it raises, which ends
\* the thread
_periodic_transmit ==
    /\ thread.transmit_thread = "alive"
    /\ ~thread.stop_event
    /\ Len(sent) < MaxSent
    /\ IF network = "None"
       THEN /\ thread' = [thread EXCEPT !.transmit_thread = "dead"]
            /\ UNCHANGED sent
       ELSE /\ sent' = Append(sent, [cob_id |-> tpdo.cob_id, data |-> tpdo.data])
            /\ UNCHANGED thread
    /\ UNCHANGED <<data_store, read_callbacks, write_callbacks, nmt, tpdo,
                   rpdo, ret, downloaded, ops, netVars, otherVars>>

Next ==
    \/ Download
    \/ Upload
    \/ add_read_callback
    \/ add_write_callback
    \/ RxFrame
    \/ MessageStart
    \/ MessageStop
    \/ NmtCommand
    \/ _periodic_transmit

Spec == Init /\ [][Next]_vars

---------------------------------------------------------------------------
(* The node on the network: association, removal, NMT frames *)

\* Mutant: the NMT slave applies every command, whatever its target
on_command_frame_any_target(st, node_id, cs, target_id) == on_command(st, cs)

\* NmtSlave.on_command behind the subscription on COB-ID 0: the frame
\* [cs, target_id] is for the node when target_id is 0 or the node's id
on_command_frame(st, node_id, cs, target_id) ==
    IF target_id \in {0, node_id} THEN on_command(st, cs) ELSE st

\* The frame as the second local node's NMT slave handles it
peer_on_command_frame(state, cs, target_id) ==
    IF target_id \in {0, PeerId} THEN NmtStateOf(cs) ELSE state

\* Node ids NMT frames are addressed to: broadcast, the two local nodes and
\* a node that is not on the network
NmtTargets == {0, NodeId, PeerId, 4}

\* LocalNode.associate_network
associate_network ==
    /\ ops < MaxOps
    /\ network = "None"
    /\ network' = "net"
    /\ subscriptions' = subscriptions \cup Subscribed(Node)
    /\ ret' = [NoCall EXCEPT !.op = "associate_network"]
    /\ ops' = ops + 1
    /\ UNCHANGED <<data_store, read_callbacks, write_callbacks, nmt, tpdo,
                   rpdo, thread, sent, downloaded, peer_nmt, otherVars>>

\* LocalNode.remove_network; without a network self.network.unsubscribe
\* raises AttributeError
remove_network ==
    /\ ops < MaxOps
    /\ IF network = "None"
       THEN /\ ret' = [NoCall EXCEPT !.op = "remove_network",
                                     !.exc = "AttributeError"]
            /\ UNCHANGED <<network, subscriptions>>
       ELSE /\ subscriptions' = subscriptions \ Unsubscribed
            /\ network' = "None"
            /\ ret' = [NoCall EXCEPT !.op = "remove_network"]
    /\ ops' = ops + 1
    /\ UNCHANGED <<data_store, read_callbacks, write_callbacks, nmt, tpdo,
                   rpdo, thread, sent, downloaded, peer_nmt, otherVars>>

\* A frame [cs, target_id] on COB-ID 0 is delivered to every subscriber
NmtFrame ==
    /\ ops < MaxOps
    /\ \E cs \in NmtCommands, target_id \in NmtTargets :
          /\ \E st \in {IF <<0, "nmt.on_command">> \in subscriptions
                         THEN on_command_frame(Node, NodeId, cs, target_id)
                         ELSE Node} :
                Commit(st)
          /\ peer_nmt' = peer_on_command_frame(peer_nmt, cs, target_id)
          /\ ret' = [NoCall EXCEPT !.op = "nmt_frame", !.index = cs,
                                   !.subindex = target_id]
    /\ ops' = ops + 1
    /\ UNCHANGED <<sent, downloaded, network, subscriptions, otherVars>>

NextNet ==
    \/ associate_network
    \/ remove_network
    \/ NmtFrame
    \/ MessageStart
    \/ MessageStop
    \/ RxFrame
    \/ Download
    \/ _periodic_transmit

SpecNet == Init /\ [][NextNet]_vars

---------------------------------------------------------------------------
(* pdo.py Message: read, save, clear, add_variable on the records of RPDO 1 *)

\* The subindices that iterating an SDO record yields: every member the
\* dictionary declares for a Record, 1..count for an Array
RecordSubindices(st, index) ==
    IF ObjectDictionary[index].kind = "Array"
    THEN 1..SdoRaw(st, index, 0)
    ELSE DOMAIN ObjectDictionary[index].subs

\* Message.read: COB-ID, enabled flag and transmission type from the
\* communication record, then one variable per member of the mapping record
\* other than subindex 0: [msg, exc]
Message_read(st, msg) ==
    Bind(MappingEntries(st, I1600,
                        Cardinality(RecordSubindices(st, I1600) \ {0})),
         LAMBDA m :
         [msg |-> [msg EXCEPT
                      !.cob_id = Some(CobId(SdoData(st, I1400, 1))),
                      !.enabled = CobEnabled(SdoData(st, I1400, 1)),
                      !.trans_type = Some(SdoRaw(st, I1400, 2)),
                      !.map = Some(m.map),
                      !.data = IF m.exc = ""
                               THEN Zeros((_get_total_size(m.map) + 7) \div 8)
                               ELSE @],
          exc |-> m.exc])

\* The four bytes of cob_id | 0x80000000 (not valid) or of cob_id (valid)
CobIdBytes(cob_id, valid) ==
    <<cob_id % 256, cob_id \div 256, 0, IF valid THEN 0 ELSE 128>>

\* sdo[index][subindex].raw = ... with the encoded bytes: a download through
\* set_data unless an earlier write of the same save() raised
Write(st, index, subindex, data) ==
    IF st.exc # "" THEN st
    ELSE IF _get_variable(index, subindex) = NoValue THEN Raise(st, "KeyError")
    ELSE set_data(st, index, subindex, data, FALSE)

RECURSIVE WriteMap(_, _, _)
\* save's loop: map_record[subindex].raw = index << 16 | subindex << 8 | bits
WriteMap(st, map, subindex) ==
    IF map = <<>> THEN st
    ELSE WriteMap(Write(st, I1600, subindex,
                        Bytes32(Descriptor(Head(map).index, Head(map).subindex,
                                           Head(map).bits))),
                  Tail(map), subindex + 1)

\* The COB-ID that save writes: the message's, or the stored one's low 11 bits
SavedCobId(st, msg) ==
    IF msg.cob_id = NoValue THEN CobId(SdoData(st, I1400, 1))
    ELSE msg.cob_id[1]

\* Message.save, the writes to the communication and mapping records
SaveWrites(st, msg, cob_id) ==
    Bind(Write(st, I1400, 1, CobIdBytes(cob_id, FALSE)), LAMBDA s1 :
    Bind(IF msg.trans_type # NoValue
         THEN Write(s1, I1400, 2, <<msg.trans_type[1]>>) ELSE s1, LAMBDA s2 :
    Bind(IF msg.map # NoValue
         THEN WriteMap(Write(s2, I1600, 0, <<Len(msg.map[1])>>), msg.map[1], 1)
         ELSE s2, LAMBDA s3 :
    IF msg.enabled THEN Write(s3, I1400, 1, CobIdBytes(cob_id, TRUE)) ELSE s3)))

\* Message.save: [node, msg]
Message_save(st, msg) ==
    Bind(SaveWrites(st, msg, SavedCobId(st, msg)), LAMBDA s1 :
        [node |-> s1,
         msg |-> [msg EXCEPT
                     !.cob_id = Some(SavedCobId(st, msg)),
                     !.data = IF msg.map # NoValue /\ s1.exc = ""
                              THEN Zeros((_get_total_size(msg.map[1]) + 7) \div 8)
                              ELSE @]])

\* Message.clear
Message_clear(msg) == [msg EXCEPT !.map = Some(<<>>)]

\* The mapping as a list, None being the empty one add_variable starts from
MapOf(msg) == IF msg.map = NoValue THEN <<>> ELSE msg.map[1]

\* An add_variable whose offset is the number of variables mapped before
Message_add_variable_counted(msg, index, subindex) ==
    Bind(_get_variable(index, subindex), LAMBDA od :
        IF od = NoValue
        THEN [msg |-> [msg EXCEPT !.map = Some(MapOf(msg))], exc |-> "KeyError"]
        ELSE [msg |-> [msg EXCEPT !.map =
                          Some(Append(MapOf(msg),
                                      [index |-> index, subindex |-> subindex,
                                       offset |-> Len(MapOf(msg)),
                                       bits |-> od[1].bits]))],
              exc |-> IF _get_total_size(MapOf(msg)) + od[1].bits <= 64
                      THEN "" ELSE "AssertionError"])

\* Message.add_variable: the variable is appended at the end of the mapping
\* and the total size asserted afterwards: [msg, exc]
Message_add_variable(msg, index, subindex) ==
    Bind(_get_variable(index, subindex), LAMBDA od :
        IF od = NoValue
        THEN [msg |-> [msg EXCEPT !.map = Some(MapOf(msg))], exc |-> "KeyError"]
        ELSE [msg |-> [msg EXCEPT !.map =
                          Some(Append(MapOf(msg),
                                      [index |-> index, subindex |-> subindex,
                                       offset |-> _get_total_size(MapOf(msg)),
                                       bits |-> od[1].bits]))],
              exc |-> IF _get_total_size(MapOf(msg)) + od[1].bits <= 64
                      THEN "" ELSE "AssertionError"])

\* add_variable calls: <<index, subindex>>
AddVariableInputs ==
    { <<I2010, 0>>, <<I2013, 0>>, <<I2030, 0>>, <<I1017, 0>>, <<I1018, 1>>,
      <<I1018, 100>>, <<I1234, 0>> }

\* message.read()
MessageRead ==
    /\ ops < MaxOps
    /\ \E r \in {Message_read(Node, message)} :
          /\ message' = r.msg
          /\ ret' = [NoCall EXCEPT !.op = "read", !.exc = r.exc]
    /\ ops' = ops + 1
    /\ UNCHANGED <<data_store, read_callbacks, write_callbacks, nmt, tpdo,
                   rpdo, thread, sent, downloaded, netVars, concVars>>

\* message.save()
MessageSave ==
    /\ ops < MaxOps
    /\ \E r \in {Message_save(Node, message)} :
          /\ Commit(r.node)
          /\ message' = r.msg
          /\ ret' = [NoCall EXCEPT !.op = "save", !.exc = r.node.exc,
                                   !.calls = r.node.calls]
          /\ downloaded' = Remove(downloaded, StoredKeys(r.node.calls))
    /\ ops' = ops + 1
    /\ UNCHANGED <<sent, netVars, concVars>>

\* message.clear()
MessageClear ==
    /\ ops < MaxOps
    /\ message' = Message_clear(message)
    /\ ret' = [NoCall EXCEPT !.op = "clear"]
    /\ ops' = ops + 1
    /\ UNCHANGED <<data_store, read_callbacks, write_callbacks, nmt, tpdo,
                   rpdo, thread, sent, downloaded, netVars, concVars>>

\* message.add_variable(index, subindex)
MessageAddVariable ==
    /\ ops < MaxOps
    /\ \E in \in AddVariableInputs :
          \E r \in {Message_add_variable(message, in[1], in[2])} :
              /\ message' = r.msg
              /\ ret' = [NoCall EXCEPT !.op = "add_variable", !.index = in[1],
                                       !.subindex = in[2], !.exc = r.exc]
    /\ ops' = ops + 1
    /\ UNCHANGED <<data_store, read_callbacks, write_callbacks, nmt, tpdo,
                   rpdo, thread, sent, downloaded, netVars, concVars>>

NextMsg ==
    \/ MessageRead
    \/ MessageSave
    \/ MessageClear
    \/ MessageAddVariable

SpecMsg == Init /\ [][NextMsg]_vars

---------------------------------------------------------------------------
(* pdo.py Message: start, stop and the steps of the periodic transmit thread *)

MaxThreads == 2        \* threads started per behaviour
MaxElapsed == 2        \* longest duration of one transmit(), in time units

\* A thread that start() has just started: at the loop test, ended by no
\* exception, no frame sent since stop() was called
NewThread == [pc |-> "while", exc |-> "", late |-> 0]

\* self.transmit_thread and self.transmit_thread.is_alive()
is_alive(t) ==
    /\ t.transmit_thread # 0
    /\ t.threads[t.transmit_thread].pc # "ended"

\* Message.start(period)
Message_start(t, period) ==
    Bind(IF period # NoValue THEN period ELSE t.period, LAMBDA p :
        IF p = NoValue \/ p = Some(0)
        THEN [task |-> [t EXCEPT !.period = p, !.stopped = FALSE],
              exc |-> "ValueError"]
        ELSE IF ~is_alive(t)
        THEN [task |-> [t EXCEPT !.period = p, !.stopped = FALSE,
                                 !.stop_event = FALSE,
                                 !.threads = Append(@, NewThread),
                                 !.transmit_thread = Len(t.threads) + 1],
              exc |-> ""]
        ELSE [task |-> [t EXCEPT !.period = p, !.stopped = FALSE],
              exc |-> ""])

\* A stop() that leaves stop_event as it is
Message_stop_no_event(t) ==
    [t EXCEPT !.transmit_thread = 0, !.stopped = TRUE,
              !.threads = [i \in DOMAIN @ |->
                  [@[i] EXCEPT !.late = IF t.stopped THEN @ ELSE 0]]]

\* Message.stop(): stop_event is set and the reference to the thread dropped;
\* join(2) returns after 2 s whether or not the thread has ended by then, so
\* the thread is left wherever it is
Message_stop(t) ==
    [t EXCEPT !.stop_event = TRUE, !.transmit_thread = 0, !.stopped = TRUE,
              !.threads = [i \in DOMAIN @ |->
                  [@[i] EXCEPT !.late = IF t.stopped THEN @ ELSE 0]]]

\* One step of thread i in Message._periodic_transmit. At the loop test it
\* reads stop_event; transmit() hands the frame to the network and raises
\* AttributeError when the node has none; time.sleep raises ValueError when
\* period - elapsed is negative. An exception ends the thread.
periodic_transmit_step(t, i, net, elapsed) ==
    CASE t.threads[i].pc = "while" ->
            [t EXCEPT !.threads[i].pc =
                IF t.stop_event THEN "ended" ELSE "transmit"]
      [] t.threads[i].pc = "transmit" ->
            IF net = "None"
            THEN [t EXCEPT !.threads[i].pc = "ended",
                           !.threads[i].exc = "AttributeError"]
            ELSE [t EXCEPT !.threads[i].pc = "sleep",
                           !.threads[i].late =
                               IF t.stopped THEN Min(@ + 1, 2) ELSE @]
      [] t.threads[i].pc = "sleep" ->
            IF t.period = NoValue \/ t.period[1] - elapsed < 0
            THEN [t EXCEPT !.threads[i].pc = "ended",
                           !.threads[i].exc = IF t.period = NoValue
                                              THEN "TypeError"
                                              ELSE "ValueError"]
            ELSE [t EXCEPT !.threads[i].pc = "while"]
      [] OTHER -> t

TaskPeriods == {NoValue, Some(0), Some(1), Some(2)}

\* message.start(period)
StartTask ==
    /\ ops < MaxOps
    /\ \E period \in TaskPeriods :
          \E r \in {Message_start(task, period)} :
              /\ Len(r.task.threads) <= MaxThreads
              /\ task' = r.task
              /\ ret' = [NoCall EXCEPT !.op = "Message.start",
                                       !.data = period, !.exc = r.exc]
    /\ ops' = ops + 1
    /\ UNCHANGED <<data_store, read_callbacks, write_callbacks, nmt, tpdo,
                   rpdo, thread, sent, downloaded, netVars, notTaskVars>>

\* message.stop()
StopTask ==
    /\ ops < MaxOps
    /\ task' = Message_stop(task)
    /\ ret' = [NoCall EXCEPT !.op = "Message.stop"]
    /\ ops' = ops + 1
    /\ UNCHANGED <<data_store, read_callbacks, write_callbacks, nmt, tpdo,
                   rpdo, thread, sent, downloaded, netVars, notTaskVars>>

\* Thread i runs one step of _periodic_transmit
ThreadStep(i) ==
    /\ i \in DOMAIN task.threads
    /\ task.threads[i].pc # "ended"
    /\ \E elapsed \in 0..MaxElapsed :
          task' = periodic_transmit_step(task, i, network, elapsed)
    /\ UNCHANGED <<data_store, read_callbacks, write_callbacks, nmt, tpdo,
                   rpdo, thread, sent, ret, downloaded, ops, netVars,
                   notTaskVars>>

NextTask ==
    \/ StartTask
    \/ StopTask
    \/ \E i \in 1..MaxThreads : ThreadStep(i)
    \/ remove_network
    \/ associate_network
    \/ MessageRead

SpecTask == Init /\ [][NextTask]_vars

\* The scheduler runs every thread that has not ended, and a sleep ends
FairSpecTask ==
    SpecTask /\ \A i \in 1..MaxThreads : WF_vars(ThreadStep(i))

---------------------------------------------------------------------------
(* pdo.py Message: wait_for_reception and PdoNode.on_message *)

\* PdoNode.on_message for the message: under receive_condition the data and
\* the timestamp are stored and notify_all wakes every thread in wait()
PdoNode_on_message(r, can_id, data, timestamp) ==
    IF r.cob_id # can_id THEN r
    ELSE [r EXCEPT !.data = data, !.timestamp = Some(timestamp),
                   !.waiters = [w \in DOMAIN @ |->
                       IF @[w].pc = "waiting"
                       THEN [@[w] EXCEPT !.pc = "notified",
                                         !.delivered = TRUE]
                       ELSE @[w]]]

\* One step of thread w in Message.wait_for_reception. With receive_condition
\* held it resets the timestamp and enters wait(), which releases the
\* condition; woken, it takes the condition again and leaves the with block;
\* then, holding nothing, it reads self.timestamp and returns it.
wait_for_reception(r, w) ==
    CASE r.waiters[w].pc = "idle" ->
            [r EXCEPT !.timestamp = NoValue, !.waiters[w].pc = "waiting"]
      [] r.waiters[w].pc \in {"notified", "timedout"} ->
            [r EXCEPT !.waiters[w].pc = "return"]
      [] r.waiters[w].pc = "return" ->
            [r EXCEPT !.waiters[w].pc = "done",
                      !.waiters[w].result = r.timestamp]
      [] OTHER -> r

\* COB-IDs of the frames on the bus: the message's and another one
RxCobIds == {TxCobId, TxCobId + 1}

\* A frame arrives and the network calls PdoNode.on_message; its timestamp
\* is the number of the frame
OnMessage ==
    /\ reception.frames < MaxFrames
    /\ \E can_id \in RxCobIds, data \in RxPayloads :
          reception' = [PdoNode_on_message(reception, can_id, data,
                                           reception.frames + 1)
                            EXCEPT !.frames = @ + 1]
    /\ UNCHANGED <<data_store, read_callbacks, write_callbacks, nmt, tpdo,
                   rpdo, thread, sent, ret, downloaded, ops, netVars,
                   notReceptionVars>>

\* Thread w runs one step of wait_for_reception
WaiterStep(w) ==
    /\ reception.waiters[w].pc \in {"idle", "notified", "timedout", "return"}
    /\ reception' = wait_for_reception(reception, w)
    /\ UNCHANGED <<data_store, read_callbacks, write_callbacks, nmt, tpdo,
                   rpdo, thread, sent, ret, downloaded, ops, netVars,
                   notReceptionVars>>

\* The timeout of thread w's receive_condition.wait(timeout) elapses
WaitTimeout(w) ==
    /\ reception.waiters[w].pc = "waiting"
    /\ reception' = [reception EXCEPT !.waiters[w].pc = "timedout"]
    /\ UNCHANGED <<data_store, read_callbacks, write_callbacks, nmt, tpdo,
                   rpdo, thread, sent, ret, downloaded, ops, netVars,
                   notReceptionVars>>

NextWait ==
    \/ OnMessage
    \/ \E w \in 1..MaxWaiters : WaiterStep(w)
    \/ \E w \in 1..MaxWaiters : WaitTimeout(w)

SpecWait == Init /\ [][NextWait]_vars

---------------------------------------------------------------------------
(* LocalNode.set_data statement by statement, called from several threads *)

\* set_data(index, subindex, data, check_writable) of the calling threads
SetDataInputs ==
    { <<I2033, 0, Bytes32(4660), FALSE>>,
      <<I2033, 0, Bytes32(22136), FALSE>>,
      <<I2030, 0, Bytes32(43981), FALSE>>,
      <<I1018, 2, <<7>>, TRUE>> }

\* The caller c has returned from set_data, or left it with exception exc
Return(c, exc) == [c EXCEPT !.pc = "done", !.exc = exc]

\* One statement of set_data in the thread of caller c: the lookup and the
\* access check, the write of data_store, then one write callback per step
set_data_step(st, c) ==
    CASE c.pc = "find" ->
            Bind(_find_object(c.index, c.subindex), LAMBDA found :
                [node |-> st,
                 caller |->
                    IF found.exc # "" THEN Return(c, found.exc)
                    ELSE IF c.check /\ ~found.od[1].writable
                    THEN Return(c, "0x06010002")
                    ELSE [c EXCEPT !.pc = "store"]])
      [] c.pc = "store" ->
            [node |-> Stored(st, c.index, c.subindex, c.data),
             caller |-> [c EXCEPT !.pc = "callback", !.k = 1]]
      [] c.pc = "callback" ->
            IF c.k > Len(st.write_callbacks)
            THEN [node |-> st, caller |-> Return(c, "")]
            ELSE Bind(InvokeWriteCallback(st.write_callbacks[c.k], st,
                                          c.index, c.subindex, c.data),
                      LAMBDA s1 :
                         [node |-> s1,
                          caller |-> IF s1.exc # "" THEN Return(c, s1.exc)
                                     ELSE [c EXCEPT !.k = @ + 1]])
      [] OTHER -> [node |-> st, caller |-> c]

\* Thread t calls node.set_data(index, subindex, data, check_writable)
CallSetData(t) ==
    /\ callers[t].pc = "idle"
    /\ \E in \in SetDataInputs :
          callers' = [callers EXCEPT ![t] =
                         [@ EXCEPT !.pc = "find", !.index = in[1],
                                   !.subindex = in[2], !.data = in[3],
                                   !.check = in[4]]]
    /\ UNCHANGED <<data_store, read_callbacks, write_callbacks, nmt, tpdo,
                   rpdo, thread, sent, ret, downloaded, ops, netVars,
                   notCallersVars>>

\* Thread t runs the next statement of its set_data call
CallerStep(t) ==
    /\ callers[t].pc \in {"find", "store", "callback"}
    /\ \E r \in {set_data_step(Node, callers[t])} :
          /\ Commit(r.node)
          /\ callers' = [callers EXCEPT ![t] = r.caller]
    /\ UNCHANGED <<sent, ret, downloaded, ops, netVars, notCallersVars>>

NextThreads ==
    \/ \E t \in 1..MaxCallers : CallSetData(t)
    \/ \E t \in 1..MaxCallers : CallerStep(t)
    \/ add_write_callback

SpecThreads == Init /\ [][NextThreads]_vars

---------------------------------------------------------------------------
(* set_data on the members of a record that the TPDO maps *)

\* set_data calls that map members of the identity record 0x1018 into the
\* TPDO and write them, and a write that names a subindex of a standalone
\* variable: <<index, subindex, data, check_writable>>
MappedInputs ==
    { <<I1A00, 1, Bytes32(Descriptor(I1018, 1, 32)), FALSE>>,
      <<I1A00, 2, Bytes32(Descriptor(I1018, 1, 32)), FALSE>>,
      <<I1A00, 2, Bytes32(Descriptor(I2030, 0, 32)), FALSE>>,
      <<I1018, 1, Bytes32(5), FALSE>>,
      <<I1018, 2, <<7>>, FALSE>>,
      <<I2033, 0, Bytes32(4660), FALSE>>,
      <<I2030, 0, Bytes32(43981), FALSE>>,
      <<I2010, 0, Bytes32(103), FALSE>>,
      <<I2010, 1, Bytes32(104), FALSE>> }

\* node.set_data(index, subindex, data) with one of these inputs
DownloadMapped ==
    /\ ops < MaxOps
    /\ \E in \in MappedInputs :
          \E st \in {set_data(Node, in[1], in[2], in[3], in[4])} :
              /\ Commit(st)
              /\ ret' = [op |-> "set_data", index |-> in[1], subindex |-> in[2],
                         data |-> in[3], check |-> in[4], exc |-> st.exc,
                         result |-> <<>>, calls |-> st.calls]
              /\ downloaded' =
                    IF StoredKeys(st.calls) = {} THEN downloaded
                    ELSE IF st.exc = ""
                    THEN Store(downloaded, in[1], in[2], in[3])
                    ELSE Remove(downloaded, StoredKeys(st.calls))
    /\ ops' = ops + 1
    /\ UNCHANGED <<sent, netVars, otherVars>>

NextMapped ==
    \/ DownloadMapped
    \/ Upload

SpecMapped == Init /\ [][NextMapped]_vars

---------------------------------------------------------------------------
(* Callbacks that raise *)

\* set_data calls: a mapping write whose descriptor names no object, so
\* that on_mapping_write raises, and writes of data objects
RaiseInputs ==
    { <<I1A00, 1, Bytes32(Descriptor(I1234, 0, 8)), FALSE>>,
      <<I1A00, 1, Bytes32(Descriptor(I2030, 0, 32)), FALSE>>,
      <<I2033, 0, Bytes32(4660), FALSE>>,
      <<I2010, 0, Bytes32(103), FALSE>>,
      <<I1234, 0, <<1>>, FALSE>> }

\* node.set_data(index, subindex, data) with one of these inputs
DownloadRaise ==
    /\ ops < MaxOps
    /\ \E in \in RaiseInputs :
          \E st \in {set_data(Node, in[1], in[2], in[3], in[4])} :
              /\ Commit(st)
              /\ ret' = [op |-> "set_data", index |-> in[1], subindex |-> in[2],
                         data |-> in[3], check |-> in[4], exc |-> st.exc,
                         result |-> <<>>, calls |-> st.calls]
              /\ downloaded' =
                    IF StoredKeys(st.calls) = {} THEN downloaded
                    ELSE IF st.exc = ""
                    THEN Store(downloaded, in[1], in[2], in[3])
                    ELSE Remove(downloaded, StoredKeys(st.calls))
    /\ ops' = ops + 1
    /\ UNCHANGED <<sent, netVars, otherVars>>

\* node.add_read_callback(a callback that raises)
AddRaisingReadCallback ==
    /\ ops < MaxOps
    /\ Len(read_callbacks) < MaxReadCallbacks
    /\ read_callbacks' = Append(read_callbacks, "read_raises")
    /\ ret' = [NoCall EXCEPT !.op = "add_read_callback"]
    /\ ops' = ops + 1
    /\ UNCHANGED <<data_store, write_callbacks, nmt, tpdo, rpdo, thread, sent,
                   downloaded, netVars, otherVars>>

\* node.add_write_callback(a callback that raises)
AddRaisingWriteCallback ==
    /\ ops < MaxOps
    /\ Len(write_callbacks) < Len(OwnWriteCallbacks) + MaxWriteCallbacks
    /\ write_callbacks' = Append(write_callbacks, "write_raises")
    /\ ret' = [NoCall EXCEPT !.op = "add_write_callback"]
    /\ ops' = ops + 1
    /\ UNCHANGED <<data_store, read_callbacks, nmt, tpdo, rpdo, thread, sent,
                   downloaded, netVars, otherVars>>

NextRaise ==
    \/ DownloadRaise
    \/ Upload
    \/ add_read_callback
    \/ add_write_callback
    \/ AddRaisingReadCallback
    \/ AddRaisingWriteCallback

SpecRaise == Init /\ [][NextRaise]_vars

---------------------------------------------------------------------------
(* pdo.py Message: configuration by attribute, and save() followed by read() *)

\* COB-IDs, transmission types given to a message
ConfigCobIds == {514, 5}
ConfigTransTypes == {1, 255}

\* message.cob_id = ...; message.enabled = ...; message.trans_type = ...
MessageConfigure ==
    /\ ops < MaxOps
    /\ \E cob_id \in ConfigCobIds, enabled \in BOOLEAN,
          trans_type \in ConfigTransTypes :
          message' = [message EXCEPT !.cob_id = Some(cob_id),
                                     !.enabled = enabled,
                                     !.trans_type = Some(trans_type)]
    /\ ret' = [NoCall EXCEPT !.op = "configure"]
    /\ ops' = ops + 1
    /\ UNCHANGED <<data_store, read_callbacks, write_callbacks, nmt, tpdo,
                   rpdo, thread, sent, downloaded, netVars, concVars>>

\* message.save(); message.read()
MessageSaveRead ==
    /\ ops < MaxOps
    /\ \E s \in {Message_save(Node, message)} :
          \E r \in {IF s.node.exc # "" THEN [msg |-> s.msg, exc |-> s.node.exc]
                    ELSE Message_read([s.node EXCEPT !.calls = <<>>], s.msg)} :
              /\ Commit(s.node)
              /\ message' = r.msg
              /\ ret' = [NoCall EXCEPT !.op = "save_read", !.exc = r.exc,
                                       !.calls = s.node.calls]
              /\ downloaded' = Remove(downloaded, StoredKeys(s.node.calls))
    /\ ops' = ops + 1
    /\ UNCHANGED <<sent, netVars, concVars>>

NextRoundTrip ==
    \/ MessageConfigure
    \/ MessageRead
    \/ MessageClear
    \/ MessageAddVariable
    \/ MessageSaveRead

SpecRoundTrip == Init /\ [][NextRoundTrip]_vars

---------------------------------------------------------------------------
(* pdo.py Variable: set_data and get_data of a variable mapped in the message *)

\* pdo.py Variable.get_data: the slice starts at the variable's byte offset
\* and its length is len(self.od), the size of the variable in bits
Variable_get_data(msg, var) ==
    SubSeq(msg.data, Min(var.offset \div 8, Len(msg.data)) + 1,
           Min(var.offset \div 8 + var.bits, Len(msg.data)))

\* Data of n bytes given to Variable.set_data
VariableData(n) == { [i \in 1..n |-> 17], [i \in 1..n |-> 160 + i] }

\* message[k].set_data(d); message[k].get_data()
VariableSetGet ==
    /\ ops < MaxOps
    /\ \E k \in 1..Len(MapOf(message)) :
          \E d \in VariableData(MapOf(message)[k].bits \div 8) :
              \E m \in {Variable_set_data(message, MapOf(message)[k], d)} :
                  /\ message' = m
                  /\ ret' = [NoCall EXCEPT
                                !.op = "Variable.set_data", !.index = k,
                                !.data = d,
                                !.result =
                                    Variable_get_data(m, MapOf(message)[k])]
    /\ ops' = ops + 1
    /\ UNCHANGED <<data_store, read_callbacks, write_callbacks, nmt, tpdo,
                   rpdo, thread, sent, downloaded, netVars, concVars>>

NextVariable ==
    \/ MessageRead
    \/ MessageClear
    \/ MessageAddVariable
    \/ MessageSave
    \/ VariableSetGet

SpecVariable == Init /\ [][NextVariable]_vars

---------------------------------------------------------------------------
(* Properties *)

\* (index, subindex) designates an entry of the object dictionary
Exists(index, subindex) ==
    /\ index \in DOMAIN ObjectDictionary
    /\ \/ ObjectDictionary[index].kind = "Variable"
       \/ subindex \in DOMAIN ObjectDictionary[index].subs

\* The OD variable of an existing (index, subindex)
Entry(index, subindex) ==
    IF ObjectDictionary[index].kind = "Variable"
    THEN ObjectDictionary[index].subs[0]
    ELSE ObjectDictionary[index].subs[subindex]

\* The positions of the read callbacks that answer (index, subindex)
Answering(index, subindex) ==
    { i \in 1..Len(read_callbacks) :
        ReadCallbackResult(read_callbacks[i], index, subindex) # NoValue }

First(S) == CHOOSE i \in S : \A j \in S : i <= j

\* The last call was a get_data / set_data that got past the object lookup
\* and the access check
Read == ret.op = "get_data" /\ ret.exc = ""
Wrote == ret.op = "set_data" /\ ret.calls # <<>>

\* The names of the callbacks invoked by the last call, in order
Invoked == [i \in 1..Len(ret.calls) |-> ret.calls[i].ev]

\* What the fallbacks after the read callbacks give for the last get_data
Fallback ==
    IF <<ret.index, ret.subindex>> \in DOMAIN data_store
    THEN data_store[<<ret.index, ret.subindex>>]
    ELSE IF Entry(ret.index, ret.subindex).value # NoValue
    THEN encode_raw(Entry(ret.index, ret.subindex),
                    Entry(ret.index, ret.subindex).value[1])
    ELSE IF Entry(ret.index, ret.subindex).default # NoValue
    THEN encode_raw(Entry(ret.index, ret.subindex),
                    Entry(ret.index, ret.subindex).default[1])
    ELSE Zeros(Entry(ret.index, ret.subindex).bits \div 8)

C3_RoundTrip_Original ==
    (Read /\ <<ret.index, ret.subindex>> \in DOMAIN downloaded)
        => ret.result = downloaded[<<ret.index, ret.subindex>>]

\* C3 as amended: the upload returns exactly d provided no read callback
\* supplies a value for that (index, subindex).
C3_RoundTrip ==
    (Read /\ <<ret.index, ret.subindex>> \in DOMAIN downloaded
          /\ Answering(ret.index, ret.subindex) = {})
        => ret.result = downloaded[<<ret.index, ret.subindex>>]

\* C3 witness: a download, a read of another object, then the upload
C3_Witness ==
    /\ Read
    /\ ops = 3
    /\ <<ret.index, ret.subindex>> \in DOMAIN downloaded
    /\ Answering(ret.index, ret.subindex) = {}
    /\ ret.result = Bytes32(4660)

\* C4: get_data and set_data on an index that is not in the object dictionary
\* fail with 0x06020000, and on a Record/Array without that subindex with
\* 0x06090011; the data store is unchanged and no callback is invoked.
C4_LookupAborts ==
    [][ (ops' # ops /\ ret'.op \in {"get_data", "set_data"}
           /\ ~Exists(ret'.index, ret'.subindex))
        => /\ ret'.exc = IF ret'.index \in DOMAIN ObjectDictionary
                         THEN "0x06090011" ELSE "0x06020000"
           /\ data_store' = data_store
           /\ ret'.calls = <<>> ]_vars

\* C4 witness: a write to a subindex the identity record does not have
C4_Witness ==
    /\ ret.op = "set_data"
    /\ ret.index = I1018
    /\ ret.subindex = 100
    /\ ret.exc = "0x06090011"

\* The last call was a checked write to a non-writable object, or a checked
\* read of a non-readable one
RefusedWrite ==
    /\ ret.op = "set_data" /\ ret.check
    /\ Exists(ret.index, ret.subindex)
    /\ ~Entry(ret.index, ret.subindex).writable

RefusedRead ==
    /\ ret.op = "get_data" /\ ret.check
    /\ Exists(ret.index, ret.subindex)
    /\ ~Entry(ret.index, ret.subindex).readable

\* C5: an upload of an existing object for which no read callback supplies a
\* value, nothing is stored, and the OD entry has neither a ParameterValue nor
\* a default is refused with 0x060A0023.
C5_ResourceNotAvailable ==
    (/\ ret.op = "get_data"
     /\ Exists(ret.index, ret.subindex)
     /\ ~RefusedRead
     /\ Answering(ret.index, ret.subindex) = {}
     /\ <<ret.index, ret.subindex>> \notin DOMAIN data_store
     /\ Entry(ret.index, ret.subindex).value = NoValue
     /\ Entry(ret.index, ret.subindex).default = NoValue)
        => ret.exc = "0x060A0023"

\* C6: a checked write to a non-writable object is refused with 0x06010001
\* and a checked read of a non-readable object with 0x06010002; the data
\* store is unchanged and no callback is invoked.
C6_AccessAborts_Original ==
    [][ ops' # ops =>
          /\ RefusedWrite' => /\ ret'.exc = "0x06010001"
                              /\ data_store' = data_store
                              /\ ret'.calls = <<>>
          /\ RefusedRead' => /\ ret'.exc = "0x06010002"
                             /\ data_store' = data_store
                             /\ ret'.calls = <<>> ]_vars

\* C6 as amended: the checked write to a non-writable object is refused with
\* 0x06010002 and the checked read of a non-readable object with 0x06010001;
\* the data store is unchanged and no callback is invoked.
C6_AccessAborts ==
    [][ ops' # ops =>
          /\ RefusedWrite' => /\ ret'.exc = "0x06010002"
                              /\ data_store' = data_store
                              /\ ret'.calls = <<>>
          /\ RefusedRead' => /\ ret'.exc = "0x06010001"
                             /\ data_store' = data_store
                             /\ ret'.calls = <<>> ]_vars

\* C6 witness: a checked write to the read-only vendor id is refused
C6_Witness ==
    /\ RefusedWrite
    /\ ret.index = I1018
    /\ ret.subindex = 1
    /\ ret.exc = "0x06010002"
    /\ <<I1018, 1>> \notin DOMAIN data_store

\* The bytes of the received payload that belong to a mapped variable
PayloadSlice(payload, var) ==
    SubSeq(payload, var.offset \div 8 + 1, (var.offset + var.bits) \div 8)

IsStore(call) == call.ev = "store"

\* The last frame's mapped variables were written through set_data, in
\* mapping order, each with its slice of the payload
WrittenThroughSetData ==
    SelectSeq(ret.calls, IsStore) =
        [k \in 1..Len(rpdo.map) |->
            Call("store", rpdo.map[k].index, rpdo.map[k].subindex,
                 PayloadSlice(ret.data, rpdo.map[k]))]

\* C7: after a frame arrived on an RPDO's COB-ID, every mapped variable's
\* slice of the payload has been written through set_data and get_data of
\* every mapped variable returns that slice.
C7_RpdoUpdatesNode_Original ==
    ret.op = "on_message" =>
        /\ WrittenThroughSetData
        /\ \A k \in 1..Len(rpdo.map) :
              get_data(Node, rpdo.map[k].index, rpdo.map[k].subindex,
                       FALSE).result = PayloadSlice(ret.data, rpdo.map[k])

\* C7 as amended: get_data returns the slice for every mapped variable for
\* which no read callback supplies a value.
C7_RpdoUpdatesNode ==
    ret.op = "on_message" =>
        /\ WrittenThroughSetData
        /\ \A k \in 1..Len(rpdo.map) :
              Answering(rpdo.map[k].index, rpdo.map[k].subindex) = {} =>
                  get_data(Node, rpdo.map[k].index, rpdo.map[k].subindex,
                           FALSE).result = PayloadSlice(ret.data, rpdo.map[k])

\* C7 witness: the frame 67 00 00 00 89 00 00 00 has arrived and 0x2013 and
\* 0x2010 read 0x67 and 0x89
C7_Witness ==
    /\ ret.op = "on_message"
    /\ Len(rpdo.map) = 2
    /\ SdoRaw(Node, I2013, 0) = 103
    /\ SdoRaw(Node, I2010, 0) = 137

RECURSIVE SumBits(_, _)
\* The bit lengths of the first n descriptors of the TPDO's mapping record
SumBits(map_index, n) ==
    IF n = 0 THEN 0
    ELSE (SdoRaw(Node, map_index, n) % 256) + SumBits(map_index, n - 1)

\* C8: after a write to a subindex of the TPDO's mapping record, the mapping
\* is the one the record holds (count at subindex 0, descriptors at 1..count,
\* offsets the running sum of the sizes) and the data buffer holds every
\* mapped variable's current value at the variable's offset.
C8_MappingWriteReseeds ==
    (Wrote /\ ret.exc = "" /\ ret.index = tpdo.map_index) =>
        /\ Len(tpdo.map) = SdoRaw(Node, tpdo.map_index, 0)
        /\ \A k \in 1..Len(tpdo.map) :
              /\ Descriptor(tpdo.map[k].index, tpdo.map[k].subindex,
                            tpdo.map[k].bits) = SdoRaw(Node, tpdo.map_index, k)
              /\ tpdo.map[k].offset = SumBits(tpdo.map_index, k - 1)
              /\ SubSeq(tpdo.data, tpdo.map[k].offset \div 8 + 1,
                        (tpdo.map[k].offset + tpdo.map[k].bits) \div 8)
                    = SdoData(Node, tpdo.map[k].index, tpdo.map[k].subindex)
        /\ Len(tpdo.data) = SumBits(tpdo.map_index, Len(tpdo.map)) \div 8

\* C8 witness: mapping {0x2033, 0x2030} with values 0x1234 and 0xABCD gives
\* 34 12 00 00 CD AB 00 00
C8_Witness ==
    /\ Wrote
    /\ ret.exc = ""
    /\ ret.index = tpdo.map_index
    /\ tpdo.data = <<52, 18, 0, 0, 205, 171, 0, 0>>

\* C9: whenever the periodic transmit task of the TPDO is running, its
\* transmission type is 254 or 255, its period is greater than 0 and the NMT
\* state is OPERATIONAL.
C9_RunningOnlyWhenGated ==
    thread.transmit_thread = "alive" =>
        /\ tpdo.trans_type \in {254, 255}
        /\ tpdo.period > 0
        /\ nmt.state = "OPERATIONAL"

\* C10: after a write to the TPDO's communication record, the periodic
\* transmission is stopped if the event timer is 0, and runs with the event
\* timer as its period if the timer is nonzero and the NMT state OPERATIONAL.
C10_PropertyWriteRestarts ==
    (Wrote /\ ret.index = tpdo.com_index) =>
        /\ SdoRaw(Node, tpdo.com_index, 5) = 0 =>
              thread.transmit_thread # "alive"
        /\ (SdoRaw(Node, tpdo.com_index, 5) # 0 /\ nmt.state = "OPERATIONAL") =>
              /\ thread.transmit_thread = "alive"
              /\ tpdo.period = SdoRaw(Node, tpdo.com_index, 5)

\* C11: when remove_network returns, every handler that associate_network
\* subscribed for the node is unsubscribed and no periodic TPDO transmit task
\* of the node is still running.
C11_RemoveNetworkShutsDown ==
    (ret.op = "remove_network" /\ ret.exc = "") =>
        /\ subscriptions = {}
        /\ thread.transmit_thread # "alive"

\* C20: an NMT frame [cs, target_id] received on COB-ID 0 sets the NMT state
\* of a local node to the commanded one when target_id is 0 or the node's id
\* and leaves it unchanged otherwise, for each of the two local nodes.
C20_NmtTargetFilter ==
    [][ (ops' # ops /\ ret'.op = "nmt_frame"
           /\ <<0, "nmt.on_command">> \in subscriptions)
        => /\ nmt'.state = IF ret'.subindex \in {0, NodeId}
                           THEN NmtStateOf(ret'.index) ELSE nmt.state
           /\ peer_nmt' = IF ret'.subindex \in {0, PeerId}
                          THEN NmtStateOf(ret'.index) ELSE peer_nmt ]_vars

\* C20 witness: after a start addressed to the second node only, the
\* broadcast stop [2, 0] has put both local nodes into STOPPED
C20_Witness ==
    /\ ret.op = "nmt_frame"
    /\ ret.index = 2
    /\ ret.subindex = 0
    /\ ops = 2
    /\ nmt.state = "STOPPED"
    /\ peer_nmt = "STOPPED"

\* The (index, subindex, data) of the OD writes of the last call, in order
Writes ==
    [i \in 1..Len(SelectSeq(ret.calls, IsStore)) |->
        <<SelectSeq(ret.calls, IsStore)[i].index,
          SelectSeq(ret.calls, IsStore)[i].subindex,
          SelectSeq(ret.calls, IsStore)[i].data>>]

\* The mapping entries of the message as save writes them at subindices 1..n
EntryWrites ==
    [k \in 1..Len(MapOf(message)) |->
        <<I1600, k, Bytes32(Descriptor(MapOf(message)[k].index,
                                       MapOf(message)[k].subindex,
                                       MapOf(message)[k].bits))>>]

\* C12: save() writes, in this order, the COB-ID with bit 31 set, the
\* transmission type, mapping count 0, the mapping entries at subindices
\* 1..n, mapping count n and last, if the PDO is enabled, the COB-ID with bit
\* 31 clear; the stored COB-ID has bit 31 set between the first and the last
\* write (the first write sets it and only the last one clears it).
C12_SaveOrder ==
    (/\ ret.op = "save" /\ ret.exc = ""
     /\ message.trans_type # NoValue /\ message.map # NoValue) =>
        Writes = <<<<I1400, 1, CobIdBytes(message.cob_id[1], FALSE)>>,
                   <<I1400, 2, <<message.trans_type[1]>>>>,
                   <<I1600, 0, <<0>>>>>>
                 \o EntryWrites
                 \o <<<<I1600, 0, <<Len(MapOf(message))>>>>>>
                 \o (IF message.enabled
                     THEN <<<<I1400, 1, CobIdBytes(message.cob_id[1], TRUE)>>>>
                     ELSE <<>>)

\* C13: read() builds a mapping of exactly M variables, M the value at
\* subindex 0 of the mapping record, from the descriptors at subindices 1..M
\* in ascending order, index = value >> 16, subindex = (value >> 8) & 0xFF,
\* bit_length = value & 0xFF.
C13_ReadTakesCountEntries ==
    (ret.op = "read" /\ ret.exc = "") =>
        /\ Len(MapOf(message)) = SdoRaw(Node, I1600, 0)
        /\ \A k \in 1..Len(MapOf(message)) :
              /\ k \in DOMAIN ObjectDictionary[I1600].subs
              /\ MapOf(message)[k].index = SdoRaw(Node, I1600, k) \div 65536
              /\ MapOf(message)[k].subindex
                    = (SdoRaw(Node, I1600, k) \div 256) % 256
              /\ MapOf(message)[k].bits = SdoRaw(Node, I1600, k) % 256

\* C14: after any sequence of read(), clear() and add_variable() calls, also
\* failed ones, the bit lengths of the variables in the mapping sum to at
\* most 64.
C14_AtMost64Bits == _get_total_size(MapOf(message)) <= 64

\* Thread i has ended
Ended(i) == task.threads[i].pc = "ended"

\* Every thread started so far has ended
AllEnded == \A i \in DOMAIN task.threads : Ended(i)

\* C15: an error raised by transmit() in one cycle does not terminate the
\* periodic task: no thread is ever ended by the exception of a transmit().
C15_TransmitErrorKeepsTask ==
    \A i \in DOMAIN task.threads :
        Ended(i) => task.threads[i].exc # "AttributeError"

\* C16: a negative remaining sleep time is treated as 0 and the task keeps
\* running: no thread is ever ended by the sleep of a cycle that took longer
\* than the period.
C16_NegativeSleepKeepsTask ==
    \A i \in DOMAIN task.threads :
        Ended(i) => task.threads[i].exc # "ValueError"

\* C17: once stop() was called and as long as no start() follows, every
\* periodic transmit thread of the message sends at most one further frame
\* and eventually ends; and a stop() while no thread of the message is
\* running raises nothing and leaves data, period and configuration as they
\* were.
C17_StopEndsTask ==
    /\ [](task.stopped => \A i \in DOMAIN task.threads :
                              task.threads[i].late <= 1)
    /\ task.stopped ~> (~task.stopped \/ AllEnded)
    /\ [][ (ops' # ops /\ ret'.op = "Message.stop" /\ AllEnded)
           => /\ ret'.exc = ""
              /\ message' = message
              /\ task'.period = task.period ]_vars

\* stop() was called while a thread was between the loop test and transmit():
\* the thread sent one more frame and ended; a second stop() then found no
\* running thread
C17_Witness ==
    /\ task.stopped /\ ret.op = "Message.stop" /\ ops = 3
    /\ \E i \in DOMAIN task.threads :
          /\ Ended(i)
          /\ task.threads[i].late = 1
          /\ task.threads[i].exc = ""

\* C18: every wait_for_reception call, also with several threads waiting on
\* the same message, returns the timestamp of a received frame if a frame of
\* the message was delivered while the call was waiting, and None only if no
\* frame was delivered before the timeout.
C18_WaitReturnsTimestamp ==
    \A w \in DOMAIN reception.waiters :
        (reception.waiters[w].pc = "done" /\ reception.waiters[w].delivered)
            => reception.waiters[w].result # NoValue

\* C19: every access of data_store and of the callback lists happens while
\* the accessing thread holds the one mutex of the node, and no callback runs
\* in a thread that holds it: a thread about to write data_store holds the
\* mutex, a thread running the write callbacks does not.
C19_AccessesUnderMutex ==
    \A t \in DOMAIN callers :
        /\ callers[t].pc = "store" => "mutex" \in callers[t].locks
        /\ callers[t].pc = "callback" => "mutex" \notin callers[t].locks

\* C21: after any interleaving of start() and stop() calls, also a stop()
\* whose join(2) returns while the thread still sleeps followed by a start(),
\* at most one periodic transmit thread of the message is running.
C21_AtMostOneThread ==
    Cardinality({i \in DOMAIN task.threads : ~Ended(i)}) <= 1

\* C22: whenever no set_data call is in progress, the data buffer of the TPDO
\* holds for every mapped variable exactly the bytes data_store holds for the
\* variable's (index, subindex), also after set_data calls on the same object
\* that interleave from different threads.
C22_TpdoDataFollowsStore ==
    (\A t \in DOMAIN callers : callers[t].pc \in {"idle", "done"}) =>
        \A k \in 1..Len(tpdo.map) :
            <<tpdo.map[k].index, tpdo.map[k].subindex>> \in DOMAIN data_store
                => VariableSlice(tpdo, tpdo.map[k])
                     = data_store[<<tpdo.map[k].index, tpdo.map[k].subindex>>]

\* C23: a set_data on (index, subindex) outside the TPDO's communication and
\* mapping records changes, in the TPDO data buffer, only the slices of the
\* mapped variables whose index and subindex both equal the written ones;
\* every other slice, also of a variable with the same index and another
\* subindex, is unchanged.
C23_DataWriteTouchesOwnSlice ==
    [][ (ops' # ops /\ ret'.op = "set_data"
           /\ ret'.index \notin {I1800, I1A00})
        => \A k \in 1..Len(tpdo.map) :
              <<tpdo.map[k].index, tpdo.map[k].subindex>>
                    # <<ret'.index, ret'.subindex>>
                 => VariableSlice(tpdo', tpdo.map[k])
                      = VariableSlice(tpdo, tpdo.map[k]) ]_vars

Range(seq) == {seq[i] : i \in DOMAIN seq}

\* The callbacks the last call invoked, in order
Callbacks ==
    [i \in 1..Len(SelectSeq(ret.calls, LAMBDA c : c.ev # "store")) |->
        SelectSeq(ret.calls, LAMBDA c : c.ev # "store")[i].ev]

\* C24: if a write callback raises during set_data, the exception reaches the
\* caller, the callbacks registered after the raising one are not invoked and
\* the new value is in data_store; if a read callback raises during get_data,
\* the exception reaches the caller and data_store is unchanged.
C24_CallbackErrorPropagates ==
    [][ ops' # ops =>
        /\ (ret'.op = "set_data" /\ "write_raises" \in Range(Callbacks'))
              => ret'.exc = "CallbackError"
        /\ (ret'.op = "set_data" /\ ret'.index = I1A00 /\ ret'.subindex = 1
              /\ decode_raw(ret'.data) \div 65536 \notin DOMAIN ObjectDictionary)
              => ret'.exc = "KeyError"
        /\ (ret'.op = "set_data" /\ ret'.exc # ""
              /\ StoredKeys(ret'.calls) # {})
              => /\ <<ret'.index, ret'.subindex>> \in DOMAIN data_store'
                 /\ data_store'[<<ret'.index, ret'.subindex>>] = ret'.data
                 /\ Callbacks' # <<>>
                 /\ Callbacks' = SubSeq(write_callbacks, 1, Len(Callbacks'))
                 /\ Callbacks'[Len(Callbacks')]
                       \in {"write_raises", "tpdo.on_mapping_write"}
        /\ (ret'.op = "get_data" /\ ret'.index = I2010
              /\ "read_raises" \in Range(Callbacks'))
              => /\ ret'.exc = "CallbackError"
                 /\ data_store' = data_store ]_vars

\* A read callback has raised out of get_data, after a set_data in which
\* on_mapping_write raised had left its value in data_store
C24_Witness ==
    /\ ret.op = "get_data" /\ ret.exc = "CallbackError"
    /\ <<I1A00, 1>> \in DOMAIN data_store
    /\ data_store[<<I1A00, 1>>] = Bytes32(Descriptor(I1234, 0, 8))

\* C25: for any configuration of a message (COB-ID, enabled flag,
\* transmission type, and a mapping of any length, also shorter than the one
\* stored in the dictionary), save() followed by read() yields the same
\* COB-ID, enabled flag, transmission type and the same mapped variables at
\* the same offsets.
C25_SaveReadRoundTrip ==
    [][ (ops' # ops /\ ret'.op = "save_read"
           /\ message.cob_id # NoValue /\ message.trans_type # NoValue
           /\ message.map # NoValue)
        => /\ ret'.exc = ""
           /\ message'.cob_id = message.cob_id
           /\ message'.enabled = message.enabled
           /\ message'.trans_type = message.trans_type
           /\ message'.map = message.map ]_vars

RECURSIVE TotalBits(_)
\* The sum of the bit lengths of the variables of a mapping
TotalBits(map) ==
    IF map = <<>> THEN 0 ELSE Head(map).bits + TotalBits(Tail(map))

\* C26: after every successful read() or add_variable() the bit offset of
\* the k-th mapped variable is the sum of the bit lengths of the variables
\* before it, and after a successful read() or save() the data buffer has
\* exactly ceil(total mapped bits / 8) bytes.
C26_OffsetsAndDataSize ==
    /\ (ret.op \in {"read", "add_variable"} /\ ret.exc = "") =>
          \A k \in 1..Len(MapOf(message)) :
              MapOf(message)[k].offset
                  = TotalBits(SubSeq(MapOf(message), 1, k - 1))
    /\ (ret.op \in {"read", "save"} /\ ret.exc = "") =>
          Len(message.data) * 8 \in
              TotalBits(MapOf(message))..(TotalBits(MapOf(message)) + 7)

\* Two variables of 32 and 16 bits were added and the message saved: the
\* second lies at bit 32 and the buffer has 6 bytes
C26_Witness ==
    /\ ret.op = "save" /\ ret.exc = ""
    /\ Len(MapOf(message)) = 2
    /\ MapOf(message)[2].offset = 32
    /\ Len(message.data) = 6

\* C27: after any sequence of set_data calls, every key (index, subindex) of
\* data_store names an entry of the object dictionary under that index and
\* subindex: a member of a Record or Array, or a standalone Variable with
\* subindex 0.
C27_StoreKeysAreObjects ==
    \A key \in DOMAIN data_store :
        /\ key[1] \in DOMAIN ObjectDictionary
        /\ IF ObjectDictionary[key[1]].kind = "Variable"
           THEN key[2] = 0
           ELSE key[2] \in DOMAIN ObjectDictionary[key[1]].subs

\* C28: for a variable mapped in a message and data d of the variable's byte
\* size, Variable.set_data(d) leaves the length of the message's buffer and
\* every byte outside the variable's slice unchanged, and a following
\* Variable.get_data() returns exactly d.
C28_VariableSetGet ==
    [][ (ops' # ops /\ ret'.op = "Variable.set_data") =>
        /\ Len(message'.data) = Len(message.data)
        /\ \A i \in 1..Len(message.data) :
              (i <= MapOf(message)[ret'.index].offset \div 8
                 \/ i > MapOf(message)[ret'.index].offset \div 8
                          + Len(ret'.data))
                 => message'.data[i] = message.data[i]
        /\ ret'.result = ret'.data ]_vars

\* C29: the aggregator's map holds receive map n under 0x1600 + (n - 1) and
\* transmit map n under 0x1A00 + (n - 1), and every receive and transmit map
\* under exactly one key.
C29_AggregatorKeys ==
    /\ \A n \in DOMAIN RpdoMaps :
          /\ I1600 + (n - 1) \in DOMAIN pdo_map
          /\ pdo_map[I1600 + (n - 1)] = RpdoMaps[n]
    /\ \A n \in DOMAIN TpdoMaps :
          /\ I1A00 + (n - 1) \in DOMAIN pdo_map
          /\ pdo_map[I1A00 + (n - 1)] = TpdoMaps[n]
    /\ \A m \in Range(RpdoMaps) \cup Range(TpdoMaps) :
          Cardinality({k \in DOMAIN pdo_map : pdo_map[k] = m}) = 1

====
